---- MODULE Spec2Model ----
(***************************************************************************)
(* Model of the two example binaries of rs-matter-embassy for ESP chips:   *)
(*   examples/esp/src/bin/light_eth.rs    (engine + device loop + wifi     *)
(*                                         connection task, select3)       *)
(*   examples/esp/src/bin/light_thread.rs (engine + device loop, select)   *)
(*                                                                         *)
(* Time is counted in milliseconds.  The wifi driver is a process of its   *)
(* own: it completes requests, raises events and drops the link between    *)
(* any two reads the connection task makes of it.  The three futures of    *)
(* the join share one executor: a step of a task is what it does between   *)
(* two of its await points (for connection(), between two reads of the     *)
(* driver).  stopwatch, after_fail, settle_due, timer_fired, answers, the   *)
(* visit counters, flips and events only record history; no action reads   *)
(* them to decide.  BootSpec is main from reset to the join, for every chip *)
(* feature; Spec and FairSpec are the joined tasks from there on; WarmSpec  *)
(* runs them on a wifi controller handed over in any state.                 *)
(***************************************************************************)
EXTENDS Integers, Sequences, FiniteSets, TLC

\* ---------------------------------------------------------------- bounds
Quantum == 2500      \* milliseconds the clock advances in one Tick
MaxCount == 5        \* visit counters saturate here

\* ------------------------------------------------------- program constants
LIGHT_ENDPOINT_ID == 1
ON_OFF_CLUSTER_ID == "TestOnOffDeviceLogic::CLUSTER.id"
DEVICE_PERIOD_SECS == 5
SETTLE_MILLIS == 5000
BACKOFF_MILLIS == 5000

VARIABLES
    binary,        \* "eth" (light_eth.rs) or "thread" (light_thread.rs)
    orch,          \* "NotStarted" | "Running" | "Terminated"
    outcome,       \* "None" or the value the join produced
    panicked,      \* a panic handler ran: the process is halted
    matter_pc,     \* protocol engine future: "run" | "done"
    matter_res,    \* "None" | "Ok" | "Err": what stack.run(..) returned
    pending,       \* set of (endpoint, cluster) change events not yet reconciled
    engine_wrote,  \* the engine wrote on_off since the last change event
    on_off,        \* the OnOffHandler's on/off state
    dev_pc,        \* device loop: "init" | "timer"
    dev_timer,     \* milliseconds left on the device loop's Timer
    seen,          \* store value at the moment notify_cluster_changed ran
    pre1,          \* value read by on_off.on_off() in the latest iteration
    pre2,          \* the same for the iteration before it
    iters,         \* device loop iterations done (saturating at 2)
    wrote_between, \* the engine wrote on_off between the last two toggles
    sup_pc,        \* position of connection()
    sup_timer,     \* milliseconds left on connection()'s Timer
    wifi_state,    \* esp_wifi::wifi::wifi_state()
    radio_req,     \* request the driver is working on: "none"|"start"|"connect"
    op_res,        \* result of the awaited start_async: "pending"|"ok"|"err"
    conn_flag,     \* WifiEvent::StaConnected is flagged
    disc_flag,     \* WifiEvent::StaDisconnected is flagged
    configured,    \* set_configuration(credentials) was accepted
    link_state,    \* "Idle" | "Starting" | "Connecting" | "Connected"
    answers,       \* the driver's answers to connect requests since boot, as
                   \* long as they follow Scenario; OffScript afterwards
    start_reqs,    \* start_async calls while on script (saturating)
    conn_reqs,     \* connect_async calls while on script (saturating)
    connected,     \* times connect_async returned Ok while on script
    stopwatch,     \* milliseconds since the last connect failure or link loss
    after_fail,    \* a connect failure was observed and no request issued since
    settle_due,    \* the link was lost and no request issued since
    timer_fired,   \* a Timer of connection() expired since its last connect request
    flips,         \* set_on_off calls of the device loop (saturating at 2)
    events,        \* notify_cluster_changed calls of the device loop (same cap)
    chip,          \* the chip feature the binary was built with
    boot_i,        \* index in BootSteps of the statement main executes next
    regions,       \* regions registered with the heap, in registration order
    free,          \* bytes not yet handed out, per registered region
    last_req       \* the latest allocation request and whether it was served

devVars == <<on_off, dev_pc, dev_timer, seen, pre1, pre2, iters, flips, events,
             wrote_between>>
engVars == <<matter_pc, matter_res, pending, engine_wrote>>
bootVars == <<chip, boot_i, regions, free, last_req>>
orchVars == <<binary, bootVars, orch, outcome, panicked>>
supVars == <<sup_pc, sup_timer, configured, link_state>>
radioVars == <<wifi_state, radio_req, op_res, conn_flag, disc_flag>>
watchVars == <<stopwatch, after_fail, settle_due, timer_fired>>
countVars == <<answers, start_reqs, conn_reqs, connected>>
vars == <<orchVars, engVars, devVars, supVars, radioVars, watchVars, countVars>>

\* ------------------------------------------------------------- durations
\* embassy_time::Duration::from_secs / from_millis, in milliseconds
FromSecs(s) == s * 1000
FromMillis(ms) == ms

Min(a, b) == IF a < b THEN a ELSE b
Max(a, b) == IF a > b THEN a ELSE b
Inc(c) == IF c < MaxCount THEN c + 1 ELSE c

\* ------------------------------------------------------ scenario bookkeeping
\* The driver's answers of the end-to-end scenario: three failed connect
\* requests, then a successful one.
Scenario == <<"fail", "fail", "fail", "ok">>
OffScript == <<"off">>

IsPrefix(h) ==
    /\ Len(h) <= Len(Scenario)
    /\ \A i \in 1..Len(h) : h[i] = Scenario[i]

\* the answers after one more answer a
Record(h, a) ==
    IF h # OffScript /\ IsPrefix(Append(h, a)) THEN Append(h, a) ELSE OffScript

\* a visit counter after one more visit: visits are counted on script only
Count(h, c) == IF h = OffScript THEN 0 ELSE Inc(c)

\* -------------------------------------------------------------- the join
\* embassy_futures::select::select3: polls its futures in order and returns
\* the first one that is ready.  Arguments are poll results, "Pending" or
\* the future's output.
Select3Last(a, b, c) ==
    IF c # "Pending" THEN [tag |-> "Third", val |-> c]
    ELSE IF b # "Pending" THEN [tag |-> "Second", val |-> b]
    ELSE IF a # "Pending" /\ FALSE THEN [tag |-> "First", val |-> a]
    ELSE [tag |-> "Pending", val |-> "Pending"]

Select3(a, b, c) ==
    IF a # "Pending" THEN [tag |-> "First", val |-> a]
    ELSE IF b # "Pending" THEN [tag |-> "Second", val |-> b]
    ELSE IF c # "Pending" THEN [tag |-> "Third", val |-> c]
    ELSE [tag |-> "Pending", val |-> "Pending"]

\* embassy_futures::select::select, the two-future join of light_thread.rs
Select(a, b) ==
    IF a # "Pending" THEN [tag |-> "First", val |-> a]
    ELSE IF b # "Pending" THEN [tag |-> "Second", val |-> b]
    ELSE [tag |-> "Pending", val |-> "Pending"]

\* IntoFaillble::into_fallible: the unit output of connection() becomes Ok(())
IntoFallible(p) == IF p = "Pending" THEN "Pending" ELSE "Ok"

\* Coalesce::coalesce: the Either collapses to the value it carries
Coalesce(e) == e.val

DevicePollReady == "Ok"

\* The device loop and connection() are `loop`s without break or return:
\* polled, they are never ready.
DevicePoll == "Pending"
ConnectionPoll == "Pending"

\* The user task handed to stack.run is `()`, "No user future to run": a task
\* that never completes.
UserPoll == "Pending"

\* What a poll of stack.run(.., ()) yields when its engine yields core: the
\* run ends with the engine, or with the user task if that one ends.
StackRunPoll(core, user) == Coalesce(Select(core, user))

\* What the joined future of main yields when the engine's poll yields m.
JoinPoll(b, m) ==
    IF b = "eth"
    THEN Coalesce(Select3(m, DevicePoll, IntoFallible(ConnectionPoll)))
    ELSE Coalesce(Select(m, DevicePoll))

\* The joined tasks run only while main awaits the join and no panic halted
\* the chip: select drops (never polls again) the futures that lost.
LiveDetached == ~panicked

Live == orch = "Running" /\ ~panicked

\* ------------------------------------------------------------ device loop
\* stack.notify_cluster_changed(1, TestOnOffDeviceLogic::CLUSTER.id): flags the
\* coordinate; `seen` records what the store holds at this moment.
NotifyStep(s) ==
    [s EXCEPT !.pending = s.pending \cup {<<1, ON_OFF_CLUSTER_ID>>},
              !.seen = s.on_off,
              !.events = Min(s.events + 1, 2)]

ToggleStepSet(s) ==
    [s EXCEPT !.on_off = TRUE, !.pre = s.on_off, !.flips = Min(s.flips + 1, 2)]

\* on_off.set_on_off(!on_off.on_off())
ToggleStep(s) ==
    [s EXCEPT !.on_off = ~s.on_off, !.pre = s.on_off, !.flips = Min(s.flips + 1, 2)]

DeviceBodyNotifyFirst(s) == ToggleStep(NotifyStep(s))

DeviceBodyNotifyTwice(s) == NotifyStep(NotifyStep(ToggleStep(s)))

\* body of the device loop after its timer: toggle, then notify
DeviceBody(s) == NotifyStep(ToggleStep(s))

\* ------------------------------------------------------------- the heap
KiB == 1024

\* the chip features the cfg attributes of init_heap name; "other" is a
\* build with none of them
Chips == {"esp32", "esp32c3", "esp32h2", "other"}

\* light_eth.rs, HEAP_SIZE of the single region
HeapSizeEth(c) == IF c \in {"esp32c3", "esp32h2"} THEN 160 * KiB ELSE 186 * KiB

\* light_thread.rs, HEAP_SIZE of the single region
HeapSizeThread(c) == IF c \in {"esp32c3", "esp32h2"} THEN 160 * KiB ELSE 186 * KiB

\* the static buffers init_heap declares, cfg block by cfg block
HeapStaticsEth(c) ==
    (IF c = "esp32"
     THEN <<[name |-> "HEAP1", len |-> 70 * KiB], [name |-> "HEAP2", len |-> 96 * KiB]>>
     ELSE <<>>)
    \o (IF c # "esp32"
        THEN <<[name |-> "HEAP", len |-> HeapSizeEth(c)]>>
        ELSE <<>>)

HeapStaticsThread(c) ==
    (IF c = "esp32"
     THEN <<[name |-> "HEAP1", len |-> 70 * KiB], [name |-> "HEAP2", len |-> 96 * KiB]>>
     ELSE <<>>)
    \o (IF c = "esp32h2"
        THEN <<[name |-> "HEAP1", len |-> 40 * KiB], [name |-> "HEAP2", len |-> 96 * KiB]>>
        ELSE <<>>)
    \o (IF c \notin {"esp32", "esp32h2"}
        THEN <<[name |-> "HEAP", len |-> HeapSizeThread(c)]>>
        ELSE <<>>)

HeapStatics(b, c) == IF b = "eth" THEN HeapStaticsEth(c) ELSE HeapStaticsThread(c)

\* esp_alloc::HEAP.add_region(HeapRegion::new(ptr, len, MemoryCapability::Internal))
AddRegion(h) == [op |-> "add_region", name |-> h.name, len |-> h.len, cap |-> "Internal"]

InitHeapFirstOnly(b, c) == <<AddRegion(HeapStatics(b, c)[1])>>

\* init_heap(): one add_region call for every static buffer of the build
InitHeap(b, c) == [i \in 1..Len(HeapStatics(b, c)) |-> AddRegion(HeapStatics(b, c)[i])]

RECURSIVE SumLen(_)
SumLen(q) == IF q = <<>> THEN 0 ELSE Head(q).len + SumLen(Tail(q))

RECURSIVE Sum(_)
Sum(q) == IF q = <<>> THEN 0 ELSE Head(q) + Sum(Tail(q))

\* bytes init_heap of binary b registers when built for chip c
HeapTotal(b, c) == SumLen(HeapStatics(b, c))

\* The allocator hands out a block from one registered region: the first that
\* has the bytes free.
Fits(fr, n) == {i \in DOMAIN fr : fr[i] >= n}

Alloc(fr, n) ==
    IF Fits(fr, n) = {}
    THEN [ok |-> FALSE, free |-> fr]
    ELSE LET i == CHOOSE k \in Fits(fr, n) : \A j \in Fits(fr, n) : k <= j
         IN [ok |-> TRUE, free |-> [fr EXCEPT ![i] = @ - n]]

\* "the only Matter dependency which needs (~4KB) alloc - `x509`"
X509_BYTES == 4 * KiB

\* sizes an allocation request is drawn from: the small request of x509, a
\* whole region, the whole heap, one byte more than the whole heap
RequestSizes(b, c) ==
    {HeapStatics(b, c)[i].len : i \in 1..Len(HeapStatics(b, c))}
        \cup {X509_BYTES, HeapTotal(b, c), HeapTotal(b, c) + 1}

\* ---------------------------------------------------------------- main
Run(what) == [op |-> "run", name |-> what, len |-> 0, cap |-> "none"]
AllocStep(what) == [op |-> "alloc", name |-> what, len |-> 0, cap |-> "none"]

BootStepsHeapLate(b, c) ==
    <<Run("esp_hal::init"), Run("Rng::new"), AllocStep("esp_wifi::init")>>
    \o InitHeap(b, c)
    \o <<Run("esp_hal_embassy::init"), AllocStep("Box::new_uninit"),
         Run("build the futures")>>

\* the statements of main up to the join, in program order
BootSteps(b, c) ==
    IF b = "eth"
    THEN <<Run("esp_hal::init")>>
         \o InitHeap(b, c)
         \o <<Run("Rng::new"), AllocStep("esp_wifi::init"),
              Run("esp_hal_embassy::init"), AllocStep("Box::new_uninit"),
              Run("esp_wifi::wifi::new"), Run("build the futures")>>
    ELSE InitHeap(b, c)
         \o <<Run("esp_hal::init"), Run("Rng::new"), AllocStep("esp_wifi::init"),
              Run("esp_hal_embassy::init"), AllocStep("Box::new_uninit"),
              Run("build the futures")>>

\* main reached the join
Booted == boot_i > Len(BootSteps(binary, chip))

\* the regions a completed init_heap leaves registered
Registered(b, c) ==
    [i \in 1..Len(InitHeap(b, c)) |->
        [name |-> InitHeap(b, c)[i].name, len |-> InitHeap(b, c)[i].len,
         cap |-> InitHeap(b, c)[i].cap]]

\* the tasks as main builds them, before the join polls them
TasksInit ==
    /\ binary \in {"eth", "thread"}
    /\ orch = "NotStarted"
    /\ outcome = "None"
    /\ panicked = FALSE
    /\ matter_pc = "run"
    /\ matter_res = "None"
    /\ pending = {}
    /\ engine_wrote = FALSE
    /\ on_off = FALSE
    /\ dev_pc = "init"
    /\ dev_timer = 0
    /\ seen = FALSE
    /\ pre1 = FALSE
    /\ pre2 = FALSE
    /\ iters = 0
    /\ wrote_between = FALSE
    /\ sup_pc = "init"
    /\ sup_timer = 0
    /\ radio_req = "none"
    /\ op_res = "pending"
    /\ conn_flag = FALSE
    /\ disc_flag = FALSE
    /\ configured = FALSE
    /\ link_state = "Idle"
    /\ answers = <<>>
    /\ start_reqs = 0
    /\ conn_reqs = 0
    /\ connected = 0
    /\ stopwatch = 0
    /\ after_fail = FALSE
    /\ settle_due = FALSE
    /\ timer_fired = FALSE
    /\ flips = 0
    /\ events = 0

\* Reset: main has executed nothing yet.
BootInit ==
    /\ TasksInit
    /\ wifi_state = "Invalid"
    /\ chip \in Chips
    /\ boot_i = 1
    /\ regions = <<>>
    /\ free = <<>>
    /\ last_req = [size |-> 0, ok |-> TRUE]

\* main is about to await the join.  The tasks read neither the chip nor the
\* heap: the task specification holds both at the values of an esp32 build.
AtJoin ==
    /\ chip = "esp32"
    /\ boot_i = Len(BootSteps(binary, chip)) + 1
    /\ regions = Registered(binary, chip)
    /\ free = [i \in 1..Len(regions) |-> regions[i].len]
    /\ last_req = [size |-> 0, ok |-> TRUE]

\* esp_wifi::wifi::new hands main a controller that is not started
Init ==
    /\ TasksInit
    /\ AtJoin
    /\ wifi_state = "Invalid"

\* the states connection() may find the radio in when it is first polled, if
\* it is handed a controller in any state
RadioAtWake == {"Invalid", "StaStarted", "StaConnected", "StaDisconnected"}

WarmInit ==
    /\ TasksInit
    /\ AtJoin
    /\ wifi_state \in RadioAtWake

\* main executes an add_region call of init_heap
BootRegister ==
    /\ orch = "NotStarted" /\ ~panicked /\ ~Booted
    /\ LET st == BootSteps(binary, chip)[boot_i] IN
         /\ st.op = "add_region"
         /\ regions' = Append(regions, [name |-> st.name, len |-> st.len, cap |-> st.cap])
         /\ free' = Append(free, st.len)
    /\ boot_i' = boot_i + 1
    /\ UNCHANGED <<binary, chip, last_req, orch, outcome, panicked, engVars, devVars,
                   supVars, radioVars, watchVars, countVars>>

\* main executes a statement that allocates: esp_wifi::init(..).unwrap() or
\* Box::new_uninit().  A request the heap cannot serve ends main (the unwrap
\* panics, the allocation error handler aborts).
BootAlloc ==
    /\ orch = "NotStarted" /\ ~panicked /\ ~Booted
    /\ BootSteps(binary, chip)[boot_i].op = "alloc"
    /\ \E n \in RequestSizes(binary, chip) :
         LET r == Alloc(free, n) IN
           /\ free' = r.free
           /\ last_req' = [size |-> n, ok |-> r.ok]
           /\ panicked' = ~r.ok
           /\ boot_i' = IF r.ok THEN boot_i + 1 ELSE boot_i
    /\ UNCHANGED <<binary, chip, regions, orch, outcome, engVars, devVars,
                   supVars, radioVars, watchVars, countVars>>

\* main executes a statement that neither registers nor allocates
BootRun ==
    /\ orch = "NotStarted" /\ ~panicked /\ ~Booted
    /\ BootSteps(binary, chip)[boot_i].op = "run"
    /\ boot_i' = boot_i + 1
    /\ UNCHANGED <<binary, chip, regions, free, last_req, orch, outcome, panicked,
                   engVars, devVars, supVars, radioVars, watchVars, countVars>>

\* main reaches the join and awaits it
OrchStart ==
    /\ orch = "NotStarted" /\ ~panicked /\ Booted
    /\ orch' = "Running"
    /\ UNCHANGED <<binary, bootVars, outcome, panicked, engVars, devVars, supVars, radioVars,
                   watchVars, countVars>>

\* A poll of the join finds one of its futures ready.  The engine of
\* stack.run(..) yields core; the same poll of main completes the join,
\* coalesces it and unwraps it (an Err panics).
MatterFinish ==
    /\ Live
    /\ matter_pc = "run"
    /\ \E core \in {"Pending", "Ok", "Err"} :
         LET r == StackRunPoll(core, UserPoll)
             j == JoinPoll(binary, r)
         IN /\ core # "Pending" \/ j # "Pending"
            /\ matter_pc' = IF core = "Pending" THEN matter_pc ELSE "done"
            /\ matter_res' = IF core = "Pending" THEN matter_res ELSE r
            /\ orch' = IF j = "Pending" THEN orch ELSE "Terminated"
            /\ outcome' = IF j = "Pending" THEN outcome ELSE j
            /\ panicked' = (j = "Err")
    /\ UNCHANGED <<binary, bootVars, pending, engine_wrote, devVars, supVars, radioVars,
                   watchVars, countVars>>

\* The engine reconciles a flagged coordinate: it reads the attribute through
\* the chained handler and clears the flag.
MatterReconcile ==
    /\ Live
    /\ matter_pc = "run"
    /\ pending # {}
    /\ \E c \in pending : pending' = pending \ {c}
    /\ UNCHANGED <<orchVars, matter_pc, matter_res, engine_wrote, devVars, supVars,
                   radioVars, watchVars, countVars>>

\* The engine dispatches an On / Off / Toggle command of a controller to the
\* on-off handler chained on endpoint 1, which writes the same on_off state.
MatterInvoke ==
    /\ Live
    /\ matter_pc = "run"
    /\ \E cmd \in {"On", "Off", "Toggle"} :
         on_off' = CASE cmd = "On" -> TRUE
                     [] cmd = "Off" -> FALSE
                     [] cmd = "Toggle" -> ~on_off
    /\ engine_wrote' = TRUE
    /\ UNCHANGED <<orchVars, matter_pc, matter_res, pending, dev_pc, dev_timer,
                   seen, pre1, pre2, iters, flips, events, wrote_between, supVars,
                   radioVars,
                   watchVars, countVars>>

DevicePeriodNone == FromSecs(0)

\* Timer::after(Duration::from_secs(5)) at the top of the device loop
DevicePeriod == FromSecs(DEVICE_PERIOD_SECS)

\* First poll of the device loop: it arms its 5 second timer.
DeviceBegin ==
    /\ Live
    /\ dev_pc = "init"
    /\ dev_pc' = "timer"
    /\ dev_timer' = DevicePeriod
    /\ UNCHANGED <<orchVars, engVars, on_off, seen, pre1, pre2, iters, flips,
                   events, wrote_between, supVars, radioVars, watchVars, countVars>>

\* The timer expired: toggle, notify, log, and arm the timer again.
DeviceIteration ==
    /\ Live
    /\ dev_pc = "timer"
    /\ dev_timer = 0
    /\ LET s == DeviceBody([on_off |-> on_off, pending |-> pending,
                            seen |-> seen, pre |-> pre1,
                            flips |-> flips, events |-> events]) IN
         /\ on_off' = s.on_off
         /\ flips' = s.flips
         /\ events' = s.events
         /\ pending' = s.pending
         /\ seen' = s.seen
         /\ pre1' = s.pre
    /\ pre2' = pre1
    /\ iters' = Min(iters + 1, 2)
    /\ wrote_between' = engine_wrote
    /\ engine_wrote' = FALSE
    /\ dev_timer' = DevicePeriod
    /\ UNCHANGED <<orchVars, matter_pc, matter_res, dev_pc, supVars, radioVars,
                   watchVars, countVars>>

\* The clock advances; armed timers count down and the stopwatch runs.
Tick ==
    /\ dev_timer' = Max(dev_timer - Quantum, 0)
    /\ sup_timer' = Max(sup_timer - Quantum, 0)
    /\ stopwatch' = IF after_fail \/ settle_due
                    THEN Min(stopwatch + Quantum, 5000) ELSE stopwatch
    /\ dev_timer' # dev_timer \/ sup_timer' # sup_timer \/ stopwatch' # stopwatch
    /\ UNCHANGED <<orchVars, engVars, on_off, dev_pc, seen, pre1, pre2, iters,
                   flips, events, wrote_between, sup_pc, configured, link_state,
                   radioVars, after_fail, settle_due, timer_fired, countVars>>

\* ------------------------------------------------------------ wifi driver
IsStartedAlways(st) == "Ok(true)"

\* WifiController::is_started as connection() uses it: started once the
\* station left the state it has before start.
IsStarted(st) ==
    IF st \in {"StaStarted", "StaConnected", "StaDisconnected"}
    THEN "Ok(true)" ELSE "Ok(false)"

\* line 178: esp_wifi::wifi::wifi_state() == WifiState::StaConnected
LinkIsUp(st) == st = "StaConnected"

NeedsStartAlways(st) == TRUE

NeedsStartInverted(st) == IsStarted(st) = "Ok(true)"

\* line 183: !matches!(controller.is_started(), Ok(true))
NeedsStart(st) == IsStarted(st) # "Ok(true)"

\* line 181: Timer::after(Duration::from_millis(5000)) after the disconnect
SettleDelay == FromMillis(SETTLE_MILLIS)

BackoffNone == FromMillis(0)

\* line 200: Timer::after(Duration::from_millis(5000)) after a failed connect
BackoffDelay == FromMillis(BACKOFF_MILLIS)

ConnectOutcomeInverted(conn, disc) == IF disc THEN "Ok" ELSE "Err"

\* what connect_async returns when it wakes with these events flagged
ConnectOutcome(conn, disc) == IF disc THEN "Err" ELSE "Ok"

\* the driver answers start_async
RadioStartDone ==
    /\ radio_req = "start"
    /\ radio_req' = "none"
    /\ \E ok \in BOOLEAN :
         /\ op_res' = IF ok THEN "ok" ELSE "err"
         /\ wifi_state' = IF ok THEN "StaStarted" ELSE wifi_state
    /\ UNCHANGED <<orchVars, engVars, devVars, supVars, conn_flag, disc_flag,
                   watchVars, countVars>>

\* the driver answers the connect request with the StaConnected or the
\* StaDisconnected event; a failed attempt ends in StaDisconnected
RadioConnectDone ==
    /\ radio_req = "connect"
    /\ radio_req' = "none"
    /\ \E ok \in BOOLEAN :
         /\ wifi_state' = IF ok THEN "StaConnected" ELSE "StaDisconnected"
         /\ conn_flag' = IF ok THEN TRUE ELSE conn_flag
         /\ disc_flag' = IF ok THEN disc_flag ELSE TRUE
         /\ answers' = Record(answers, IF ok THEN "ok" ELSE "fail")
    /\ IF answers' = OffScript
       THEN start_reqs' = 0 /\ conn_reqs' = 0 /\ connected' = 0
       ELSE UNCHANGED <<start_reqs, conn_reqs, connected>>
    /\ UNCHANGED <<orchVars, engVars, devVars, supVars, op_res, watchVars>>

\* the established link is lost: the driver notifies StaDisconnected
RadioDrop ==
    /\ wifi_state = "StaConnected"
    /\ wifi_state' = "StaDisconnected"
    /\ disc_flag' = TRUE
    /\ settle_due' = TRUE
    /\ stopwatch' = 0
    /\ UNCHANGED <<orchVars, engVars, devVars, supVars, radio_req, op_res,
                   conn_flag, after_fail, timer_fired, countVars>>

\* -------------------------------------------------------- connection task
\* a panic inside connection(): the panic handler halts the chip
SupPanic ==
    /\ sup_pc' = "panicked"
    /\ panicked' = TRUE
    /\ UNCHANGED <<binary, bootVars, orch, outcome, sup_timer, configured, link_state,
                   radioVars, watchVars, countVars>>

\* line 196: controller.connect_async() is called and awaited: it discards
\* the StaConnected / StaDisconnected occurrences flagged so far, asks the
\* driver to connect and waits for either event.
IssueConnect ==
    /\ sup_pc' = "connecting"
    /\ radio_req' = "connect"
    /\ conn_flag' = FALSE
    /\ disc_flag' = FALSE
    /\ conn_reqs' = Count(answers, conn_reqs)
    /\ link_state' = "Connecting"
    /\ after_fail' = FALSE
    /\ settle_due' = FALSE
    /\ timer_fired' = FALSE
    /\ UNCHANGED <<orchVars, sup_timer, configured, wifi_state, op_res, stopwatch,
                   answers, start_reqs, connected>>

\* lines 184-191: set_configuration(credentials), then start_async is called
\* and awaited
IssueStart ==
    /\ configured' = TRUE
    /\ sup_pc' = "starting"
    /\ radio_req' = "start"
    /\ op_res' = "pending"
    /\ start_reqs' = Count(answers, start_reqs)
    /\ link_state' = "Starting"
    /\ after_fail' = FALSE
    /\ settle_due' = FALSE
    /\ UNCHANGED <<orchVars, sup_timer, wifi_state, conn_flag, disc_flag,
                   stopwatch, timer_fired, answers, conn_reqs, connected>>

\* lines 175-176: first poll, the two log lines
SupBegin ==
    /\ Live /\ binary = "eth"
    /\ sup_pc = "init"
    /\ sup_pc' = "chk_state"
    /\ UNCHANGED <<orchVars, engVars, devVars, sup_timer, configured, link_state,
                   radioVars, watchVars, countVars>>

\* line 178: if esp_wifi::wifi::wifi_state() == WifiState::StaConnected
SupCheckState ==
    /\ Live
    /\ sup_pc = "chk_state"
    /\ sup_pc' = IF LinkIsUp(wifi_state) THEN "register" ELSE "chk_started"
    /\ UNCHANGED <<orchVars, engVars, devVars, sup_timer, configured, link_state,
                   radioVars, watchVars, countVars>>

\* line 180: wait_for_event(StaDisconnected) starts to wait for the next
\* occurrence of the event: an occurrence flagged earlier is discarded.
SupRegister ==
    /\ Live
    /\ sup_pc = "register"
    /\ sup_pc' = "wait_disc"
    /\ disc_flag' = FALSE
    /\ UNCHANGED <<orchVars, engVars, devVars, sup_timer, configured, link_state,
                   wifi_state, radio_req, op_res, conn_flag, watchVars, countVars>>

\* lines 180-181: the event fired; the settle timer is armed
SupDisconnected ==
    /\ Live
    /\ sup_pc = "wait_disc"
    /\ disc_flag
    /\ disc_flag' = FALSE
    /\ sup_timer' = SettleDelay
    /\ sup_pc' = "settle"
    /\ UNCHANGED <<orchVars, engVars, devVars, configured, link_state,
                   wifi_state, radio_req, op_res, conn_flag, watchVars, countVars>>

\* line 181: the settle timer expired
SupSettled ==
    /\ Live
    /\ sup_pc = "settle"
    /\ sup_timer = 0
    /\ sup_pc' = "chk_started"
    /\ timer_fired' = TRUE
    /\ UNCHANGED <<orchVars, engVars, devVars, sup_timer, configured, link_state,
                   radioVars, stopwatch, after_fail, settle_due, countVars>>

\* lines 183-196: start the radio unless it is started, else go on to connect
SupCheckStarted ==
    /\ Live
    /\ sup_pc = "chk_started"
    /\ UNCHANGED <<engVars, devVars>>
    /\ IF NeedsStart(wifi_state)
       THEN \E cfg_ok \in BOOLEAN :
              IF cfg_ok
              THEN IssueStart
              ELSE SupPanic   \* line 189: set_configuration(..).unwrap()
       ELSE IssueConnect

\* lines 191-196: start_async returned
SupStarted ==
    /\ Live
    /\ sup_pc = "starting"
    /\ op_res # "pending"
    /\ UNCHANGED <<engVars, devVars>>
    /\ IF op_res = "ok"
       THEN IssueConnect
       ELSE SupPanic          \* line 191: start_async().await.unwrap()

\* lines 196-201: connect_async woke and returned
SupConnectResult ==
    /\ Live
    /\ sup_pc = "connecting"
    /\ conn_flag \/ disc_flag
    /\ conn_flag' = FALSE
    /\ disc_flag' = FALSE
    /\ IF ConnectOutcome(conn_flag, disc_flag) = "Ok"
       THEN /\ connected' = Count(answers, connected)
            /\ link_state' = "Connected"
            /\ sup_pc' = "chk_state"
            /\ UNCHANGED <<sup_timer, stopwatch, after_fail>>
       ELSE /\ sup_timer' = BackoffDelay
            /\ sup_pc' = "backoff"
            /\ after_fail' = TRUE
            /\ stopwatch' = 0
            /\ UNCHANGED <<connected, link_state>>
    /\ UNCHANGED <<orchVars, engVars, devVars, configured, wifi_state, radio_req,
                   op_res, settle_due, timer_fired, answers, start_reqs, conn_reqs>>

\* line 200: the backoff timer expired
SupBackoffDone ==
    /\ Live
    /\ sup_pc = "backoff"
    /\ sup_timer = 0
    /\ sup_pc' = "chk_state"
    /\ timer_fired' = TRUE
    /\ UNCHANGED <<orchVars, engVars, devVars, sup_timer, configured, link_state,
                   radioVars, stopwatch, after_fail, settle_due, countVars>>

Next ==
    \/ OrchStart
    \/ MatterFinish
    \/ MatterReconcile
    \/ MatterInvoke
    \/ DeviceBegin
    \/ DeviceIteration
    \/ Tick
    \/ RadioStartDone
    \/ RadioConnectDone
    \/ RadioDrop
    \/ SupBegin
    \/ SupCheckState
    \/ SupRegister
    \/ SupDisconnected
    \/ SupSettled
    \/ SupCheckStarted
    \/ SupStarted
    \/ SupConnectResult
    \/ SupBackoffDone

Spec == Init /\ [][Next]_vars

\* main from reset to the join
BootNext ==
    \/ BootRegister
    \/ BootAlloc
    \/ BootRun
    \/ OrchStart

BootSpec == BootInit /\ [][BootNext]_vars

\* connection() run on a controller in any state
WarmSpec == WarmInit /\ [][Next]_vars

\* The supervisor and its environment scheduled fairly: the executor polls a
\* woken task, the clock runs, the driver answers what it was asked.
FairSpec ==
    /\ Spec
    /\ WF_vars(Tick)
    /\ WF_vars(DeviceBegin)
    /\ WF_vars(DeviceIteration)
    /\ WF_vars(RadioStartDone)
    /\ WF_vars(RadioConnectDone)
    /\ WF_vars(SupBegin)
    /\ WF_vars(SupCheckState)
    /\ WF_vars(SupRegister)
    /\ WF_vars(SupDisconnected)
    /\ WF_vars(SupCheckStarted)
    /\ WF_vars(SupStarted)
    /\ WF_vars(SupConnectResult)
    /\ WF_vars(SupBackoffDone)
    /\ WF_vars(SupSettled)

\* a step in which connection() calls connect_async
ConnectRequested == sup_pc # "connecting" /\ sup_pc' = "connecting"

\* a step in which connection() calls start_async
StartRequested == sup_pc # "starting" /\ sup_pc' = "starting"

\* ------------------------------------------------------------------ claims

\* C1: no start failure and no connect failure makes the connection task
\* terminal: after a failed start_async or a failed connect_async it has
\* neither returned nor aborted.
C1_SupervisorNeverTerminal ==
    (op_res = "err" \/ after_fail) => sup_pc \notin {"panicked", "returned"}

\* C2: while the connection task runs, every connect failure is eventually
\* followed by a new connect request, and no connect request follows a
\* failure before 5000 ms have passed since the failure.
C2_RetryAfterBackoff ==
    /\ (sup_pc = "backoff") ~> (sup_pc = "connecting" \/ ~Live)
    /\ [][after_fail /\ ConnectRequested => stopwatch >= 5000]_vars

C2_Witness ==
    /\ sup_pc = "connecting"
    /\ answers = <<"fail">>
    /\ conn_reqs = 2
    /\ stopwatch = 5000

\* C3: the join is first-wins: the engine's result, Ok or Err, is the
\* terminal outcome as soon as the engine finishes, nothing else is, and the
\* engine is not run again.
C3_FirstWins ==
    /\ [](matter_pc = "done" <=> orch = "Terminated")
    /\ [](orch = "Terminated" => outcome = matter_res /\ outcome \in {"Ok", "Err"})
    /\ [](orch # "Terminated" => outcome = "None")
    /\ [][matter_pc = "done" => matter_pc' = "done" /\ matter_res' = matter_res]_vars

C3_Witness ==
    /\ binary = "eth"
    /\ orch = "Terminated"
    /\ outcome = "Err"
    /\ sup_pc = "backoff"
    /\ iters = 2

\* C4: the orchestrator only moves NotStarted -> Running -> Terminated, the
\* outcome is produced once, and after it no task takes a step: no flip, no
\* change event, no start or connect request, no relaunch.
C4_SingleOutcome ==
    [][ /\ orch' # orch =>
              \/ orch = "NotStarted" /\ orch' = "Running"
              \/ orch = "Running" /\ orch' = "Terminated"
        /\ outcome' # outcome =>
              outcome = "None" /\ orch = "Running" /\ orch' = "Terminated"
        /\ orch = "Terminated" =>
              /\ UNCHANGED <<orch, outcome, matter_pc, matter_res, pending>>
              /\ UNCHANGED <<on_off, dev_pc, seen, iters>>
              /\ UNCHANGED <<sup_pc, link_state, configured>>
              /\ radio_req' \in {radio_req, "none"} ]_vars

C4_Witness ==
    /\ binary = "eth"
    /\ orch = "Terminated"
    /\ outcome = "Ok"
    /\ dev_pc = "timer" /\ dev_timer = 0
    /\ sup_pc = "backoff" /\ sup_timer = 0

\* C5: when notify_cluster_changed runs the store already holds the flipped
\* value, and as long as a change event is pending and the engine has not
\* written the attribute itself, a read yields the flipped value.
C5_FlipBeforeNotify ==
    /\ iters > 0 => seen = ~pre1
    /\ (pending # {} /\ ~engine_wrote) => on_off = ~pre1

C5_Witness ==
    /\ pending = {<<LIGHT_ENDPOINT_ID, ON_OFF_CLUSTER_ID>>}
    /\ iters = 1
    /\ pre1 = FALSE
    /\ seen = TRUE
    /\ on_off = TRUE

\* C6 as stated: after every iteration the value is the negation of the value
\* before it, and after two consecutive iterations it is the value before the
\* first of them, in every interleaving with the engine.
C6_RoundTripAlways ==
    /\ iters >= 1 => seen = ~pre1
    /\ iters = 2 => seen = pre2

\* C6 as amended: after every iteration the value is the negation of the value
\* the iteration read, and two consecutive iterations return the value to the
\* one before the first of them when the engine did not write the attribute
\* between the two flips.
C6_RoundTripUndisturbed ==
    /\ iters >= 1 => seen = ~pre1
    /\ (iters = 2 /\ ~wrote_between) => seen = pre2

C6_Witness ==
    /\ iters = 2
    /\ ~wrote_between
    /\ pre2 = TRUE
    /\ pre1 = FALSE
    /\ seen = TRUE

\* C7: when is_started() is Ok(true) at line 183 the connection task issues no
\* start request, does not fail, and goes on to call connect_async.
C7_IdempotentStart ==
    [][(sup_pc = "chk_started" /\ IsStarted(wifi_state) = "Ok(true)"
          /\ sup_pc' # sup_pc)
       => /\ sup_pc' = "connecting"
          /\ radio_req' = "connect"
          /\ start_reqs' = start_reqs
          /\ configured' = configured
          /\ panicked' = panicked]_vars

C7_Witness ==
    /\ sup_pc = "connecting"
    /\ radio_req = "connect"
    /\ start_reqs = 1
    /\ conn_reqs = 3

\* C8: after three failed connect requests and a fourth that succeeded, the
\* task has been in Connecting 4 times and in Connected once; every retry came
\* 5000 ms or more after the failure; and the link state only moves along
\* Idle -> Starting -> Connecting -> Connected (and back to Connecting).
C8_ThreeFailuresThenSuccess ==
    /\ []((answers = Scenario /\ link_state = "Connected")
           => (conn_reqs = 4 /\ connected = 1 /\ start_reqs = 1))
    /\ [][(link_state = "Connecting" /\ ConnectRequested) => stopwatch >= 5000]_vars
    /\ [][link_state' # link_state =>
            <<link_state, link_state'>> \in
               {<<"Idle", "Starting">>, <<"Starting", "Connecting">>,
                <<"Connecting", "Connected">>, <<"Connected", "Connecting">>}]_vars

C8_Witness ==
    /\ answers = Scenario
    /\ link_state = "Connected"
    /\ conn_reqs = 4
    /\ connected = 1
    /\ stopwatch = 5000

\* C9: while the link is connected the connection task is at most suspended
\* on the StaDisconnected event: no request is in flight or issued and it
\* waits on no timer.
C9_ConnectedWaitsOnEvent ==
    /\ [](wifi_state = "StaConnected" =>
            /\ sup_pc \in {"connecting", "chk_state", "register", "wait_disc"}
            /\ radio_req = "none"
            /\ (sup_pc = "connecting" => conn_flag /\ ~disc_flag))
    /\ [][wifi_state = "StaConnected" => ~ConnectRequested /\ ~StartRequested]_vars

C9_Witness ==
    /\ wifi_state = "StaConnected"
    /\ sup_pc = "wait_disc"
    /\ ~disc_flag
    /\ link_state = "Connected"

\* C10: after a disconnect notification the connection task issues no start
\* and no connect request before 5000 ms have passed.
C10_SettleBeforeRequest ==
    [][(settle_due /\ (ConnectRequested \/ StartRequested)) => stopwatch >= 5000]_vars

\* C11: the no-op user task `()` and the device loop never end the join: as
\* long as the engine of stack.run has not completed, the join has produced
\* no outcome, however many iterations the device loop has run; the only
\* step that terminates the join is the one in which the engine completes.
C11_NoOpNeverTerminates ==
    /\ [](matter_pc = "run" => orch # "Terminated" /\ outcome = "None")
    /\ [][orch' = "Terminated" /\ orch # "Terminated" =>
              matter_pc = "run" /\ matter_pc' = "done"]_vars
    /\ [](UserPoll = "Pending" /\ StackRunPoll("Pending", UserPoll) = "Pending")

C11_Witness ==
    /\ orch = "Running"
    /\ matter_pc = "run"
    /\ outcome = "None"
    /\ iters = 2
    /\ pending # {}

\* an allocation has been requested, or the join has started its tasks
HeapInUse == last_req.size > 0 \/ orch # "NotStarted"

\* C12: in both binaries every add_region call of init_heap is done before
\* the first allocation request (esp_wifi::init, the boxed stack) and before
\* the joined tasks start, and no region is registered after either.
C12_RegisterBeforeUse ==
    /\ [](HeapInUse => regions = Registered(binary, chip))
    /\ [][HeapInUse => regions' = regions]_vars
    /\ [](orch # "NotStarted" => Booted)

C12_Witness ==
    /\ binary = "thread"
    /\ chip = "esp32h2"
    /\ Len(regions) = 2
    /\ last_req.size > 0 /\ last_req.ok
    /\ orch = "Running"

\* main is at a statement that allocates
AtAlloc == ~Booted /\ BootSteps(binary, chip)[boot_i].op = "alloc"

\* a step in which an allocation request is made
AllocRequested == AtAlloc /\ ~panicked /\ (boot_i' # boot_i \/ panicked')

\* C13: once init_heap has registered the regions of sizes S1, S2 the heap
\* holds S1 + S2 bytes; a request of S1 + S2 + 1 bytes fails; a request is
\* served whenever a region has that many bytes free and takes exactly its
\* size from the heap, so that requests of S1 and of S2 bytes (S1 + S2 in
\* total) both succeed and leave nothing.
C13_Capacity ==
    /\ []((AtAlloc /\ last_req.size = 0) =>
              /\ Len(free) = Len(HeapStatics(binary, chip))
              /\ Sum(free) = HeapTotal(binary, chip))
    /\ [](last_req.size > HeapTotal(binary, chip) => ~last_req.ok)
    /\ [](\A i \in DOMAIN free : free[i] >= 0)
    /\ [][AllocRequested =>
              /\ last_req'.ok <=> (\E i \in DOMAIN free : free[i] >= last_req'.size)
              /\ last_req'.ok => Sum(free') = Sum(free) - last_req'.size
              /\ ~last_req'.ok => free' = free]_vars

C13_Witness ==
    /\ Len(regions) = 2
    /\ regions[1].len # regions[2].len
    /\ free = <<0, 0>>
    /\ last_req.ok
    /\ Booted

\* a step in which the device loop runs its body (toggle, notify, re-arm)
DeviceWrites ==
    /\ dev_pc = "timer" /\ dev_timer = 0
    /\ flips' = Min(flips + 1, 2)
    /\ dev_timer' > 0

\* a step in which the engine's chained on-off handler executes a command
EngineWrites ==
    /\ matter_pc = "run"
    /\ engine_wrote'
    /\ UNCHANGED <<dev_pc, dev_timer, flips, events, pending>>

\* C14 as stated: only the device loop ever changes the on/off attribute.
C14_SingleWriter == [][on_off' # on_off => DeviceWrites]_vars

\* C14: the attribute has two writers, the device loop and the on-off handler
\* the engine dispatches commands to; every change is made by exactly one of
\* them in one step, while the join is awaited, and never by connection().
C14_TwoWritersNeverTogether ==
    [][on_off' # on_off =>
          /\ orch = "Running" /\ ~panicked
          /\ DeviceWrites # EngineWrites
          /\ UNCHANGED <<sup_pc, sup_timer, radio_req>>]_vars

C14_Witness ==
    /\ flips = 2
    /\ engine_wrote
    /\ on_off = pre1
    /\ orch = "Running"

\* a step in which the device loop runs the body of one iteration
DeviceIterates ==
    /\ dev_pc = "timer" /\ dev_timer = 0
    /\ on_off' # on_off
    /\ ~engine_wrote'

\* the positions at which connection() is parked on an await
SuspensionPoints == {"wait_disc", "settle", "starting", "connecting", "backoff"}

\* a step in which connection() returns to the top of its loop
SupLoopsBack == sup_pc' = "chk_state" /\ sup_pc \notin {"chk_state", "init"}

\* C15: no loop runs a full iteration without being parked.  The device loop
\* leaves its body with a timer that has not expired, and enters it only when
\* the timer has.  connection() returns to the top of its loop only from an
\* await (connect_async or the backoff timer) that was pending when it was
\* reached: connect_async starts with both events cleared, the timers with a
\* time left.
C15_YieldEveryIteration ==
    /\ [][DeviceIterates => dev_timer' > 0]_vars
    /\ [][dev_pc' = "timer" /\ dev_pc = "init" => dev_timer' > 0]_vars
    /\ [][SupLoopsBack => sup_pc \in SuspensionPoints]_vars
    /\ [][ConnectRequested => ~conn_flag' /\ ~disc_flag']_vars
    /\ [][StartRequested => op_res' = "pending"]_vars
    /\ [][sup_pc' \in {"settle", "backoff"} /\ sup_pc' # sup_pc => sup_timer' > 0]_vars
    /\ [][sup_pc = "chk_state" /\ sup_pc' \notin {"chk_state", "panicked"} =>
              sup_pc' \in {"register", "chk_started"}]_vars
    /\ [][sup_pc = "chk_started" /\ sup_pc' \notin {"chk_started", "panicked"} =>
              sup_pc' \in SuspensionPoints]_vars

C15_Witness ==
    /\ iters = 2
    /\ dev_timer > 0
    /\ sup_pc = "chk_state"
    /\ link_state = "Connected"
    /\ answers = Scenario

\* the coordinate of the on/off cluster on the light's endpoint of NODE
LightCoordinate == <<LIGHT_ENDPOINT_ID, ON_OFF_CLUSTER_ID>>

\* C16: every iteration of the device loop starts when its 5 second timer has
\* expired, flips the attribute once and emits one change event, which names
\* endpoint 1 and the on/off cluster; events and flips are equal in number
\* after every iteration, and nothing else emits an event.
C16_OneEventPerFlip ==
    /\ [](flips = events /\ events = iters)
    /\ [](pending \subseteq {LightCoordinate})
    /\ [][DeviceIterates =>
              /\ events < 2 => events' = events + 1 /\ flips' = flips + 1
              /\ LightCoordinate \in pending']_vars
    /\ [][events' # events \/ flips' # flips \/ ~(pending' \subseteq pending) =>
              /\ DeviceIterates
              /\ orch = "Running"]_vars

C16_Witness ==
    /\ events = 2 /\ flips = 2
    /\ pending = {LightCoordinate}
    /\ dev_timer = DevicePeriod
    /\ binary = "thread"

\* the station states in which the radio is started
StartedStates == {"StaStarted", "StaConnected", "StaDisconnected"}

C18_TotalFixedByVariant ==
    Booted =>
        /\ Len(regions) = Len(HeapStatics(binary, chip))
        /\ \A i \in DOMAIN regions :
              /\ regions[i].name = HeapStatics(binary, chip)[i].name
              /\ regions[i].len = HeapStatics(binary, chip)[i].len
              /\ regions[i].cap = "Internal"
        /\ \A i, j \in DOMAIN regions : regions[i].name = regions[j].name => i = j
        /\ SumLen(regions) = HeapTotal("eth", chip)
        /\ SumLen(regions) = HeapTotal("thread", chip)

\* C19: whenever the driver dropped an established link, connection() goes
\* on to call connect_async again (unless the join ended first), and it does
\* not stay parked on the StaDisconnected event while the link is down.
C19_EventualRecovery ==
    /\ (settle_due /\ wifi_state = "StaDisconnected") ~>
           (sup_pc = "connecting" \/ ~Live)
    /\ (sup_pc = "wait_disc" /\ wifi_state = "StaDisconnected") ~>
           (sup_pc # "wait_disc" \/ ~Live)

\* C20: whenever connection() calls connect_async after an earlier call, one
\* of its 5000 ms timers (line 181, line 200) has expired in between.
C20_NoBusyRetry ==
    [][(ConnectRequested /\ link_state \in {"Connecting", "Connected"})
          => timer_fired]_vars

====
